---- MODULE Spec2Model ----
(***************************************************************************)
(* The Daily Journalist: users with roles and two follow relations,        *)
(* articles with an approval flag, newsletters, the page views             *)
(* (news/views.py) and the REST API (news/api_views.py) that act on them.  *)
(*                                                                         *)
(* The database is the only shared state.  Every ORM call is committed on  *)
(* its own (no ATOMIC_REQUESTS in settings.py), so a request handler is a  *)
(* sequence of committed reads and writes.  The sequential specifications  *)
(* run one whole handler per step; the race specifications run the same    *)
(* handlers one ORM call per step.                                         *)
(***************************************************************************)
EXTENDS Integers, FiniteSets, Sequences, TLC

VARIABLES
    users,                   \* news_user rows: pk -> [role, is_staff, is_superuser, email]
    subscribed_publishers,   \* M2M rows <<from_user, to_user>> of User.subscribed_publishers
    subscribed_journalists,  \* M2M rows <<from_user, to_user>> of User.subscribed_journalists
    articles,                \* news_article rows: pk -> [title, content, author, publisher, approved]
    next_article_id,         \* the AUTO_INCREMENT counter of news_article
    newsletters,             \* news_newsletter rows: pk -> [title, description, author, articles]
    next_newsletter_id,      \* the AUTO_INCREMENT counter of news_newsletter
    EMAIL_HOST_USER,         \* settings.EMAIL_HOST_USER, the operator address
    comments,                \* news_comment rows in pk order: [article, author, text]
    groups,                  \* auth rows <<user, group name>> of User.groups
    response,                \* what the last finished request did and returned
    inflight,                \* race specifications: each worker's request in progress
    started                  \* race specifications: requests started so far

vars == <<users, subscribed_publishers, subscribed_journalists, articles,
          next_article_id, newsletters, next_newsletter_id, EMAIL_HOST_USER,
          comments, groups, response, inflight, started>>

----------------------------------------------------------------------------
(* Bounds and input domains *)

\* Primary keys a user row can take.
UserIds == {1, 2, 3}

\* Python's None: the pk of AnonymousUser, a null publisher.
None == 0

AnonymousUser == None

Roles == {"READER", "JOURNALIST", "EDITOR"}

\* follow_type is any string of the URL; "other" stands for every string that
\* is neither of the two the view knows.
FollowTypes == {"journalist", "publisher", "other"}

Workers == {"w1", "w2"}

\* Requests the race specifications start in one behaviour.
MaxRequests == 3

Idle == [pc |-> "idle"]

NoResponse == [op |-> "none", status |-> "none"]

----------------------------------------------------------------------------
(* models.py: User *)

\* models.py:45 and :56, the staff roles.
IsStaffRole(role) == role \in {"JOURNALIST", "EDITOR"}

\* A save that only ever raises the flag: the else branch (models.py:47-48) lost.
StaffFlagKeepsOld(role, is_staff_in) ==
    IF role \in {"JOURNALIST", "EDITOR"} THEN TRUE ELSE is_staff_in

\* models.py:44-48: is_staff is recomputed from the role; the value the
\* instance carried (is_staff_in) is overwritten.
StaffFlag(role, is_staff_in) == IF IsStaffRole(role) THEN TRUE ELSE FALSE

\* models.py:53, super().save(): the whole row is written.
SavedRow(role, is_staff_in, is_superuser, email) ==
    [role |-> role, is_staff |-> StaffFlag(role, is_staff_in),
     is_superuser |-> is_superuser, email |-> email]

\* RelatedManager.clear() of a forward M2M of user u: every row whose
\* from_user is u goes (models.py:60, :61).
Cleared(rel, u) == {e \in rel : e[1] # u}

\* models.py:55-61: which relations a save of `u` with `role` leaves.
PublishersAfterSave(rel, u, role) ==
    IF IsStaffRole(role) /\ u # None THEN Cleared(rel, u) ELSE rel

\* A save that forgets the second clear() (models.py:61).
JournalistsKeptAfterSave(rel, u, role) == rel

JournalistsAfterSave(rel, u, role) ==
    IF IsStaffRole(role) /\ u # None THEN Cleared(rel, u) ELSE rel

Following(rel, u) == {e \in rel : e[1] = u}

----------------------------------------------------------------------------
(* views.py: access control helpers *)

is_authenticated(user) == user # AnonymousUser /\ user \in DOMAIN users

\* A role check that only turns Editors away.
MaySubscribeUnlessEditor(role) == role # "EDITOR"

\* views.py:174: only a Reader may toggle a subscription.
MaySubscribe(role) == role = "READER"

\* A toggle that lost its remove branch: it only ever subscribes.
ToggledAddOnly(rel, follower, target) == rel \cup {<<follower, target>>}

\* The row <<follower, target>> of the relation a follow_type names.
HasEdge(follow_type, follower, target) ==
    CASE follow_type = "journalist" -> <<follower, target>> \in subscribed_journalists
      [] follow_type = "publisher" -> <<follower, target>> \in subscribed_publishers
      [] OTHER -> FALSE

\* views.py:180-185 and :188-193: remove the row when present, add it otherwise.
Toggled(rel, follower, target) ==
    IF <<follower, target>> \in rel
    THEN rel \ {<<follower, target>>}
    ELSE rel \cup {<<follower, target>>}

----------------------------------------------------------------------------
(* Sequential handlers: one whole request per step *)

\* signals.py:14-29, assign_user_to_group: the receiver of post_save for
\* User.  The group named after instance.role is fetched or created and the
\* user is added to it unless already a member; no other membership is
\* touched.
assign_user_to_group(g, u, role) == g \cup {<<u, role>>}

\* The memberships of rows that were each saved once with their role.
GroupsOfRoles(rows) == {<<u, rows[u].role>> : u \in DOMAIN rows}

\* models.py:39-61 with signals.py:14-29: the whole of User.save() of an
\* existing row whose role, is_staff or is_superuser attribute was set by the
\* caller (admin change form, list_editable role).
UserSave(u, role, is_staff_in) ==
    /\ u \in DOMAIN users
    /\ users' = [users EXCEPT ![u] =
                    SavedRow(role, is_staff_in, users[u].is_superuser,
                             users[u].email)]
    /\ subscribed_publishers' = PublishersAfterSave(subscribed_publishers, u, role)
    /\ subscribed_journalists' = JournalistsAfterSave(subscribed_journalists, u, role)
    /\ response' = [op |-> "save", user |-> u, status |-> "OK",
                    old_role |-> users[u].role,
                    is_staff_in |-> is_staff_in,
                    had_publishers |-> Following(subscribed_publishers, u) # {},
                    had_journalists |-> Following(subscribed_journalists, u) # {}]
    /\ groups' = assign_user_to_group(groups, u, role)
    /\ UNCHANGED <<articles, next_article_id, newsletters, next_newsletter_id,
                 EMAIL_HOST_USER, comments, inflight, started>>

\* The next pk of news_user.
NextUserId == IF DOMAIN users = {} THEN 1
              ELSE 1 + CHOOSE m \in DOMAIN users : \A v \in DOMAIN users : v <= m

\* views.py:398-426, register: a new row with the role of the form, saved
\* through User.save().
\* createsuperuser (is_superuser and is_staff set on the instance, the role
\* left at its default, models.py:25) ends in the same User.save().
register(role, email, is_superuser) ==
    /\ LET u == NextUserId
           row == SavedRow(role, is_superuser, is_superuser, email)
           grown == [v \in DOMAIN users \cup {u} |->
                        IF v = u THEN row ELSE users[v]]
       IN /\ users' = grown
          /\ subscribed_publishers' =
                 PublishersAfterSave(subscribed_publishers, u, role)
          /\ subscribed_journalists' =
                 JournalistsAfterSave(subscribed_journalists, u, role)
          /\ response' = [op |-> "register", user |-> u, status |-> "OK"]
    /\ groups' = assign_user_to_group(groups, NextUserId, role)
    /\ UNCHANGED <<articles, next_article_id, newsletters, next_newsletter_id,
                 EMAIL_HOST_USER, comments, inflight, started>>

\* views.py:171-196, toggle_subscribe.
toggle_subscribe(user, user_id, follow_type) ==
    LET out(status) ==
            [op |-> "toggle_subscribe", user |-> user, target |-> user_id,
             follow_type |-> follow_type, status |-> status,
             was |-> HasEdge(follow_type, user, user_id),
             repeat |-> /\ response.op = "toggle_subscribe"
                        /\ response.status = "OK"
                        /\ response.user = user
                        /\ response.target = user_id
                        /\ response.follow_type = follow_type]
    IN
    /\ UNCHANGED <<users, articles, next_article_id, newsletters,
                   next_newsletter_id, EMAIL_HOST_USER, comments, groups,
                   inflight, started>>
    /\ IF ~is_authenticated(user)
       THEN /\ response' = out("Unauthenticated")
            /\ UNCHANGED <<subscribed_publishers, subscribed_journalists>>
       ELSE IF ~MaySubscribe(users[user].role)
       THEN /\ response' = out("Forbidden")
            /\ UNCHANGED <<subscribed_publishers, subscribed_journalists>>
       ELSE IF user_id \notin DOMAIN users
       THEN /\ response' = out("NotFound")
            /\ UNCHANGED <<subscribed_publishers, subscribed_journalists>>
       ELSE /\ response' = out("OK")
            /\ subscribed_journalists' =
                  IF follow_type = "journalist"
                  THEN Toggled(subscribed_journalists, user, user_id)
                  ELSE subscribed_journalists
            /\ subscribed_publishers' =
                  IF follow_type = "publisher"
                  THEN Toggled(subscribed_publishers, user, user_id)
                  ELSE subscribed_publishers

----------------------------------------------------------------------------
(* Users and subscriptions, one request at a time *)

UserRow(role) == SavedRow(role, FALSE, FALSE, "")

\* Rows of the membership table the explored histories may hold.
MaxMemberships == 3

\* The pks this specification lets news_user hold: one row at the start,
\* the other registered.
SubUsers == {1, 2}

SubInit ==
    /\ users = (1 :> UserRow("READER"))
    /\ subscribed_publishers = {}
    /\ subscribed_journalists = {}
    /\ articles = <<>>
    /\ next_article_id = 1
    /\ newsletters = <<>>
    /\ next_newsletter_id = 1
    /\ EMAIL_HOST_USER = ""
    /\ comments = <<>>
    /\ groups = GroupsOfRoles(users)
    /\ response = NoResponse
    /\ inflight = [w \in Workers |-> Idle]
    /\ started = 0

SubNext ==
    \/ \E u \in SubUsers, role \in Roles, s \in BOOLEAN :
          UserSave(u, role, s) /\ Cardinality(groups') <= MaxMemberships
    \/ \E role \in Roles : NextUserId \in SubUsers /\ register(role, "", FALSE)
    \/ NextUserId \in SubUsers /\ register("READER", "", TRUE)
    \/ \E user \in SubUsers \cup {AnonymousUser}, t \in SubUsers,
          ft \in FollowTypes :
          toggle_subscribe(user, t, ft)

SubSpec == SubInit /\ [][SubNext]_vars

----------------------------------------------------------------------------
(* Claims about users and subscriptions *)

FollowRelations == <<subscribed_publishers, subscribed_journalists>>

\* C1: every toggle_subscribe request of an authenticated user whose role is
\* not READER ends Forbidden and changes neither follow relation, whatever
\* the target id and the follow_type.
C1_NonReaderToggleForbidden ==
    [][\A user \in UserIds, t \in UserIds, ft \in FollowTypes :
          (/\ response'.op = "toggle_subscribe"
           /\ response'.user = user
           /\ response'.target = t
           /\ response'.follow_type = ft
           /\ user \in DOMAIN users
           /\ users[user].role # "READER"
           /\ toggle_subscribe(user, t, ft))
          => (/\ response'.status = "Forbidden"
              /\ UNCHANGED FollowRelations)]_vars

C1_Witness ==
    /\ response.op = "toggle_subscribe"
    /\ response.status = "Forbidden"
    /\ response.target \in DOMAIN users
    /\ response.follow_type = "journalist"
    /\ users[response.user].role = "EDITOR"
    /\ users[response.user].is_superuser

\* C2: a successful toggle_subscribe of a Reader flips the row
\* <<actor, target>> of the named relation, and when the request before it
\* was the same toggle (same actor, target and relation, nothing in between)
\* the row is back in the state it had before that first request.
C2_ToggleTwiceRestores ==
    [][\A user \in UserIds, t \in UserIds, ft \in {"journalist", "publisher"} :
          (/\ response'.op = "toggle_subscribe"
           /\ response'.status = "OK"
           /\ response'.user = user
           /\ response'.target = t
           /\ response'.follow_type = ft
           /\ toggle_subscribe(user, t, ft))
          => (/\ HasEdge(ft, user, t)' = ~HasEdge(ft, user, t)
              /\ response'.repeat => HasEdge(ft, user, t)' = response.was)]_vars

C2_Witness ==
    /\ response.op = "toggle_subscribe"
    /\ response.status = "OK"
    /\ response.follow_type = "publisher"
    /\ response.repeat
    /\ response.was
    /\ ~HasEdge("publisher", response.user, response.target)

\* C8: when User.save() returns for a user whose stored role was READER and
\* whose role is now EDITOR or JOURNALIST, that user follows nobody in
\* either relation and is_staff is true.
C8_PromotionClearsFollows ==
    (/\ response.op = "save"
     /\ response.old_role = "READER"
     /\ users[response.user].role \in {"EDITOR", "JOURNALIST"})
    => (/\ Following(subscribed_publishers, response.user) = {}
        /\ Following(subscribed_journalists, response.user) = {}
        /\ users[response.user].is_staff = TRUE)

C8_Witness ==
    /\ response.op = "save"
    /\ response.old_role = "READER"
    /\ users[response.user].role = "EDITOR"
    /\ response.had_publishers
    /\ response.had_journalists
    /\ users[response.user].is_staff

\* C10: after every User.save() (a change of an existing row or the insert
\* of a new one) the stored is_staff is true exactly when the stored role is
\* JOURNALIST or EDITOR, whatever is_staff the instance carried into the
\* save and whether or not the user is a superuser.
C10_StaffFlagDerived ==
    response.op \in {"save", "register"}
    => (users[response.user].is_staff
          <=> users[response.user].role \in {"JOURNALIST", "EDITOR"})

C10_Witness ==
    /\ response.op = "save"
    /\ response.is_staff_in
    /\ response.old_role = "EDITOR"
    /\ users[response.user].role = "READER"
    /\ users[response.user].is_superuser
    /\ ~users[response.user].is_staff

----------------------------------------------------------------------------
(* The same handlers, one committed ORM call per step.  A worker holds the  *)
(* request it is serving; what it read earlier stays in its record.         *)

Finish(w) == inflight' = [inflight EXCEPT ![w] = Idle]

CanStart(w) == inflight[w] = Idle /\ started < MaxRequests

\* views.py:171-176: the session's user row is loaded (its role read), and a
\* role other than READER ends the request.
toggle_begin(w, user, user_id, follow_type) ==
    /\ CanStart(w)
    /\ started' = started + 1
    /\ UNCHANGED <<users, subscribed_publishers, subscribed_journalists,
                   articles, next_article_id, newsletters, next_newsletter_id,
                   EMAIL_HOST_USER, comments, groups>>
    /\ LET out(status) ==
              [op |-> "toggle_subscribe", user |-> user, target |-> user_id,
               follow_type |-> follow_type, status |-> status,
               was |-> FALSE, repeat |-> FALSE]
       IN IF ~is_authenticated(user)
          THEN response' = out("Unauthenticated") /\ UNCHANGED inflight
          ELSE IF ~MaySubscribe(users[user].role)
          THEN response' = out("Forbidden") /\ UNCHANGED inflight
          ELSE /\ inflight' = [inflight EXCEPT ![w] =
                     [pc |-> "get_target", user |-> user, target |-> user_id,
                      follow_type |-> follow_type, found |-> FALSE]]
               /\ UNCHANGED response

\* views.py:178, get_object_or_404(User, id=user_id).
toggle_get_target(w) ==
    /\ inflight[w].pc = "get_target"
    /\ UNCHANGED <<users, subscribed_publishers, subscribed_journalists,
                   articles, next_article_id, newsletters, next_newsletter_id,
                   EMAIL_HOST_USER, comments, groups, started>>
    /\ LET r == inflight[w]
       IN IF r.target \notin DOMAIN users
          THEN /\ Finish(w)
               /\ response' = [op |-> "toggle_subscribe", user |-> r.user,
                               target |-> r.target, follow_type |-> r.follow_type,
                               status |-> "NotFound", was |-> FALSE,
                               repeat |-> FALSE]
          ELSE /\ inflight' = [inflight EXCEPT ![w].pc = "membership"]
               /\ UNCHANGED response

\* views.py:181 and :189, `request.user in target_user.<followers>.all()`.
toggle_membership(w) ==
    /\ inflight[w].pc = "membership"
    /\ UNCHANGED <<users, subscribed_publishers, subscribed_journalists,
                   articles, next_article_id, newsletters, next_newsletter_id,
                   EMAIL_HOST_USER, comments, groups, started, response>>
    /\ LET r == inflight[w]
       IN inflight' = [inflight EXCEPT ![w] =
              [r EXCEPT !.pc = "write",
                        !.found = HasEdge(r.follow_type, r.user, r.target)]]

\* RelatedManager.add(): the row is inserted unless it is there already;
\* RelatedManager.remove(): the row is deleted if it is there.
RowAdded(rel, follower, target) == rel \cup {<<follower, target>>}

RowRemoved(rel, follower, target) == rel \ {<<follower, target>>}

\* views.py:182-196: how the write can end.  The view calls add() or
\* remove() with no try, transaction or lock around it and then redirects.
\* remove() is a DELETE of the matching rows and ends without an error.
\* What add() does with a pair that another request inserted after the
\* membership test (:181, :189) is the related manager's and the database's
\* doing, which this repository neither contains nor pins: the call inserts
\* nothing and returns, or the unique pair is refused and the exception
\* leaves the view.
WriteOutcomes(rel, found, follower, target) ==
    IF ~found /\ <<follower, target>> \in rel THEN {"OK", "ServerError"}
    ELSE {"OK"}

\* views.py:180-196: remove() when the row was found, add() otherwise, on
\* the relation follow_type names; any other follow_type calls neither
\* (:180, :188) and only redirects (:196).
toggle_write(w) ==
    /\ inflight[w].pc = "write"
    /\ UNCHANGED <<users, articles, next_article_id, newsletters,
                 next_newsletter_id, EMAIL_HOST_USER, comments, groups, started>>
    /\ LET r == inflight[w]
           written(rel) == IF r.found THEN RowRemoved(rel, r.user, r.target)
                           ELSE RowAdded(rel, r.user, r.target)
       IN /\ subscribed_journalists' =
                IF r.follow_type = "journalist"
                THEN written(subscribed_journalists) ELSE subscribed_journalists
          /\ subscribed_publishers' =
                IF r.follow_type = "publisher"
                THEN written(subscribed_publishers) ELSE subscribed_publishers
          /\ \E status \in
                   IF r.follow_type = "journalist"
                   THEN WriteOutcomes(subscribed_journalists, r.found,
                                      r.user, r.target)
                   ELSE IF r.follow_type = "publisher"
                   THEN WriteOutcomes(subscribed_publishers, r.found,
                                      r.user, r.target)
                   ELSE {"OK"} :
                response' = [op |-> "toggle_subscribe", user |-> r.user,
                             target |-> r.target,
                             follow_type |-> r.follow_type,
                             status |-> status,
                             was |-> r.found, repeat |-> FALSE]
    /\ Finish(w)

\* models.py:44-53: is_staff set from the role and the row written.  The
\* post_save receiver runs next, inside super().save(), one ORM call at a
\* time (save_group_get, save_group_exists, save_group_add).
save_row(w, u, role, is_staff_in) ==
    /\ CanStart(w)
    /\ u \in DOMAIN users
    /\ started' = started + 1
    /\ users' = [users EXCEPT ![u] =
                    SavedRow(role, is_staff_in, users[u].is_superuser,
                             users[u].email)]
    /\ inflight' = [inflight EXCEPT ![w] =
           [pc |-> "in_signal", user |-> u, role |-> role,
            old_role |-> users[u].role, is_staff_in |-> is_staff_in,
            had_publishers |-> Following(subscribed_publishers, u) # {},
            had_journalists |-> Following(subscribed_journalists, u) # {}]]
    /\ UNCHANGED <<subscribed_publishers, subscribed_journalists, articles,
                   next_article_id, newsletters, next_newsletter_id,
                   EMAIL_HOST_USER, comments, groups, response>>

\* What the steps of the receiver leave alone.
SignalRest ==
    UNCHANGED <<users, subscribed_publishers, subscribed_journalists, articles,
                next_article_id, newsletters, next_newsletter_id,
                EMAIL_HOST_USER, comments, response, started>>

\* signals.py:24, Group.objects.get_or_create(name=instance.role): the row
\* of auth_group, which holds no membership.
save_group_get(w) ==
    /\ inflight[w].pc = "in_signal"
    /\ inflight' = [inflight EXCEPT ![w].pc = "group_exists"]
    /\ UNCHANGED groups
    /\ SignalRest

\* signals.py:28, instance.groups.filter(id=group.id).exists(): the
\* membership as stored when the query runs.
save_group_exists(w) ==
    /\ inflight[w].pc = "group_exists"
    /\ LET r == inflight[w]
       IN inflight' = [inflight EXCEPT ![w] =
              [pc |-> "group_add", user |-> r.user, role |-> r.role,
               old_role |-> r.old_role, is_staff_in |-> r.is_staff_in,
               had_publishers |-> r.had_publishers,
               had_journalists |-> r.had_journalists,
               in_group |-> <<r.user, r.role>> \in groups]]
    /\ UNCHANGED groups
    /\ SignalRest

\* signals.py:28-29: instance.groups.add(group) unless the query found the
\* membership; add() of a row that is there inserts nothing.
save_group_add(w) ==
    /\ inflight[w].pc = "group_add"
    /\ LET r == inflight[w]
       IN /\ groups' = IF r.in_group THEN groups
                       ELSE assign_user_to_group(groups, r.user, r.role)
          /\ inflight' = [inflight EXCEPT ![w] =
                 [pc |-> "after_row", user |-> r.user, role |-> r.role,
                  old_role |-> r.old_role, is_staff_in |-> r.is_staff_in,
                  had_publishers |-> r.had_publishers,
                  had_journalists |-> r.had_journalists]]
    /\ SignalRest

\* models.py:56-60: the first clear(), or the end of a save that clears nothing.
save_clear_publishers(w) ==
    /\ inflight[w].pc = "after_row"
    /\ LET r == inflight[w]
       IN /\ subscribed_publishers' =
                PublishersAfterSave(subscribed_publishers, r.user, r.role)
          /\ inflight' = [inflight EXCEPT ![w].pc = "after_publishers"]
    /\ UNCHANGED <<users, subscribed_journalists, articles, next_article_id,
                   newsletters, next_newsletter_id, EMAIL_HOST_USER, comments, groups, response,
                   started>>

\* models.py:61: the second clear(); save() returns.
save_clear_journalists(w) ==
    /\ inflight[w].pc = "after_publishers"
    /\ LET r == inflight[w]
       IN /\ subscribed_journalists' =
                JournalistsAfterSave(subscribed_journalists, r.user, r.role)
          /\ response' = [op |-> "save", user |-> r.user, status |-> "OK",
                          old_role |-> r.old_role,
                          is_staff_in |-> r.is_staff_in,
                          had_publishers |-> r.had_publishers,
                          had_journalists |-> r.had_journalists]
    /\ Finish(w)
    /\ UNCHANGED <<users, subscribed_publishers, articles, next_article_id,
                   newsletters, next_newsletter_id, EMAIL_HOST_USER, comments, groups, started>>

RaceInit ==
    /\ users = (1 :> UserRow("READER")) @@ (2 :> UserRow("JOURNALIST"))
    /\ subscribed_publishers = {}
    /\ subscribed_journalists = {}
    /\ articles = <<>>
    /\ next_article_id = 1
    /\ newsletters = <<>>
    /\ next_newsletter_id = 1
    /\ EMAIL_HOST_USER = ""
    /\ comments = <<>>
    /\ groups = GroupsOfRoles(users)
    /\ response = NoResponse
    /\ inflight = [w \in Workers |-> Idle]
    /\ started = 0

RaceNext ==
    \E w \in Workers :
        \/ \E user \in SubUsers \cup {AnonymousUser}, t \in UserIds,
              ft \in FollowTypes : toggle_begin(w, user, t, ft)
        \/ toggle_get_target(w)
        \/ toggle_membership(w)
        \/ toggle_write(w)
        \/ \E u \in SubUsers, role \in Roles : save_row(w, u, role, FALSE)
        \/ save_group_get(w)
        \/ save_group_exists(w)
        \/ save_group_add(w)
        \/ save_clear_publishers(w)
        \/ save_clear_journalists(w)

RaceSpec == RaceInit /\ [][RaceNext]_vars

\* No save is between writing its row and its last clear().
NoSaveUnderWay ==
    \A w \in Workers :
        inflight[w].pc \notin {"in_signal", "group_exists", "group_add",
                               "after_row", "after_publishers"}

Quiescent == \A w \in Workers : inflight[w] = Idle

\* C9: no user whose stored role is JOURNALIST or EDITOR is the follower of a
\* row of either follow relation.  Stated for the states in which every
\* request has finished, so that a save's own window between writing the row
\* and clearing the relations does not count against it.
C9_StaffFollowNobody ==
    Quiescent =>
        \A u \in DOMAIN users :
            IsStaffRole(users[u].role)
            => (/\ Following(subscribed_publishers, u) = {}
                /\ Following(subscribed_journalists, u) = {})

----------------------------------------------------------------------------
(* Articles: input domains *)

\* Rows news_article is given in one behaviour.
MaxArticles == 1

ArticleIds == 1..MaxArticles

Titles == {"t1", "t2"}

Contents == {"c1", "c2"}

Methods == {"GET", "POST"}

\* The pk of a user as the form posts it, and back.
PkString(u) == CASE u = 1 -> "1" [] u = 2 -> "2" [] u = 3 -> "3" [] OTHER -> ""

ParsePk(str) == CHOOSE u \in UserIds : PkString(u) = str

\* The publishers the forms offer: views.py:243 and :271,
\* User.objects.filter(role="EDITOR").
Editors == {u \in DOMAIN users : users[u].role = "EDITOR"}

----------------------------------------------------------------------------
(* views.py: access control helpers; api_views.py: permission classes *)

\* An editor test that lets every member of staff through.
is_editor_or_journalist(user) ==
    is_authenticated(user)
    /\ (users[user].role \in {"EDITOR", "JOURNALIST"} \/ users[user].is_superuser)

\* views.py:21-24.
is_editor(user) ==
    is_authenticated(user) /\ (users[user].role = "EDITOR" \/ users[user].is_superuser)

\* views.py:27-30.
is_journalist(user) ==
    is_authenticated(user) /\ (users[user].role = "JOURNALIST" \/ users[user].is_superuser)

\* views.py:33-37.
is_staff_member(user) ==
    is_authenticated(user)
    /\ (users[user].role \in {"JOURNALIST", "EDITOR"} \/ users[user].is_superuser)

\* A permission class that only asks for a logged-in user.
IsJournalistAnyUser(user) == is_authenticated(user)

\* api_views.py:25-30, IsJournalist.has_permission.
IsJournalist(user) == is_authenticated(user) /\ users[user].role = "JOURNALIST"

\* An IsEditor that lets every authenticated user through.
IsEditorAnyUser(user) == is_authenticated(user)

\* api_views.py:36-40, IsEditor.has_permission.
IsEditor(user) ==
    is_authenticated(user) /\ (users[user].role = "EDITOR" \/ users[user].is_superuser)

\* api_views.py:46-50, IsAuthorOrEditor.has_object_permission, for a logged-in
\* user (AnonymousUser has no role attribute: the handlers below end in a
\* server error before this is asked).
IsAuthorOrEditor(user, author) ==
    IF users[user].role = "EDITOR" \/ users[user].is_superuser THEN TRUE
    ELSE author = user

----------------------------------------------------------------------------
(* Article queries and the approval notification *)

\* A list that forgot its filter.
AllArticles == DOMAIN articles

\* views.py:52 and api_views.py:67-71, Article.objects.filter(approved=True).
ApprovedArticles == {a \in DOMAIN articles : articles[a].approved}

\* The rows as the list shows them.
Listed(ids) == {[id |-> a, title |-> articles[a].title] : a \in ids}

\* Emails of the users who hold a row to `target` in `rel`, the empty ones
\* left out (views.py:129-135, api_views.py:106-111).
FollowerEmails(rel, target) ==
    {users[e[1]].email : e \in {x \in rel : x[2] = target /\ users[x[1]].email # ""}}

\* A recipient list that forgot the author's followers.
RecipientsWithoutFollowers(author, publisher) ==
    {EMAIL_HOST_USER}
    \cup (IF publisher # None
          THEN FollowerEmails(subscribed_publishers, publisher) ELSE {})

\* views.py:125-135 and :146, api_views.py:104-111 and :120: the operator
\* address, the publisher's readers, the author's followers, each once
\* (list(set(...))).
Recipients(author, publisher) ==
    {EMAIL_HOST_USER}
    \cup (IF publisher # None
          THEN FollowerEmails(subscribed_publishers, publisher) ELSE {})
    \cup FollowerEmails(subscribed_journalists, author)

Inserted(row) == articles @@ (next_article_id :> row)

Deleted(a) == [b \in DOMAIN articles \ {a} |-> articles[b]]

\* The rows of Newsletter.articles (models.py:135-137) that point at a
\* deleted article go with it.
WithoutArticle(a) ==
    [n \in DOMAIN newsletters |->
        [newsletters[n] EXCEPT !.articles = @ \ {a}]]

\* models.py:108-110, on_delete=CASCADE: the comments of article a go with it.
CommentsWithout(a) == SelectSeq(comments, LAMBDA c : c.article # a)

ArticleUnchanged == UNCHANGED <<articles, next_article_id>>

UsersUnchanged ==
    UNCHANGED <<users, subscribed_publishers, subscribed_journalists,
                EMAIL_HOST_USER, groups, inflight, started>>

NewsletterUnchanged == UNCHANGED <<newsletters, next_newsletter_id>>

CommentsUnchanged == UNCHANGED comments

RestUnchanged == UsersUnchanged /\ NewsletterUnchanged /\ CommentsUnchanged

Denied(op, user, status) == [op |-> op, user |-> user, status |-> status]

----------------------------------------------------------------------------
(* Article handlers, one whole request per step *)

\* views.py:43-62, index.
index(user) ==
    /\ response' = [op |-> "index", user |-> user, status |-> "OK",
                    items |-> Listed(ApprovedArticles)]
    /\ ArticleUnchanged /\ RestUnchanged

\* api_views.py:65-72 under :87-88 (IsAuthenticatedOrReadOnly lets every GET
\* through), the list action.
api_list(user) ==
    /\ response' = [op |-> "api_list", user |-> user, status |-> "OK",
                    items |-> Listed(ApprovedArticles)]
    /\ ArticleUnchanged /\ RestUnchanged

\* views.py:221-244, create_article.
\* A create request may carry approved and author next to the fields the
\* handler reads: names lists which of the two the request supplies.
NoExtras == [names |-> {}, approved |-> FALSE, author |-> None]

\* Nothing more than the form, or approved = true with user 1 as author.
Extras == {NoExtras,
           [names |-> {"approved", "author"}, approved |-> TRUE, author |-> 1]}

\* views.py:221-244, create_article: of request.POST only title, content and
\* publisher are read (:225, :233-234); author and approved are set by the
\* handler (:235, :237).
create_article_sent(user, method, title, content, p_id, extras) ==
    /\ RestUnchanged
    /\ IF ~is_authenticated(user)
       THEN response' = Denied("create_article", user, "Unauthenticated")
            /\ ArticleUnchanged
       ELSE IF ~is_journalist(user)
       THEN response' = Denied("create_article", user, "Forbidden")
            /\ ArticleUnchanged
       ELSE IF method # "POST"
       THEN response' = [op |-> "create_article", user |-> user,
                         status |-> "OK", method |-> method]
            /\ ArticleUnchanged
       ELSE /\ next_article_id \in ArticleIds
            /\ articles' = Inserted(
                  [title |-> title, content |-> content, author |-> user,
                   publisher |-> IF p_id # "" /\ p_id # "independent"
                                 THEN ParsePk(p_id) ELSE None,
                   approved |-> FALSE])
            /\ next_article_id' = next_article_id + 1
            /\ response' = [op |-> "create_article", user |-> user,
                            status |-> "OK", method |-> method,
                            article |-> next_article_id, extras |-> extras]

\* The same request with nothing but the fields of the form.
create_article(user, method, title, content, p_id) ==
    create_article_sent(user, method, title, content, p_id, NoExtras)

\* serializers.py:46, read_only_fields.
read_only_fields == {"approved", "author"}

\* serializers.py:23-46: the validated data of a create.  A read-only field
\* of the body is dropped; approved then has the default of the model
\* (models.py:85) and author is not set.
validated_data(title, content, publisher, extras) ==
    LET kept == extras.names \ read_only_fields
    IN [title |-> title, content |-> content, publisher |-> publisher,
        author |-> IF "author" \in kept THEN extras.author ELSE None,
        approved |-> IF "approved" \in kept THEN extras.approved ELSE FALSE]

\* A perform_create that saves the validated data as they are.
perform_create_plain(validated, user) == validated

\* api_views.py:92-94, perform_create: the keyword arguments of save()
\* override the validated data.
perform_create(validated, user) ==
    [validated EXCEPT !.author = user, !.approved = FALSE]

\* api_views.py:76-78 and :92-94, the create action.  A request body may
\* name approved and author: both are read-only in the serializer
\* (serializers.py:46) and perform_create sets them.
api_create_sent(user, title, content, publisher, extras) ==
    /\ RestUnchanged
    /\ IF ~is_authenticated(user)
       THEN response' = Denied("api_create", user, "Unauthenticated")
            /\ ArticleUnchanged
       ELSE IF ~IsJournalist(user)
       THEN response' = Denied("api_create", user, "Forbidden")
            /\ ArticleUnchanged
       ELSE /\ next_article_id \in ArticleIds
            /\ articles' = Inserted(
                  perform_create(
                      validated_data(title, content, publisher, extras), user))
            /\ next_article_id' = next_article_id + 1
            /\ response' = [op |-> "api_create", user |-> user,
                            status |-> "OK", article |-> next_article_id,
                            extras |-> extras]

\* The same request with title, content and publisher only.
api_create(user, title, content, publisher) ==
    api_create_sent(user, title, content, publisher, NoExtras)

\* views.py:247-274, edit_article.
edit_article(user, article_id, method, title, content, pub_id) ==
    /\ RestUnchanged
    /\ UNCHANGED next_article_id
    /\ IF ~is_authenticated(user)
       THEN response' = Denied("edit_article", user, "Unauthenticated")
            /\ UNCHANGED articles
       ELSE IF article_id \notin DOMAIN articles
       THEN response' = Denied("edit_article", user, "NotFound")
            /\ UNCHANGED articles
       ELSE IF user # articles[article_id].author /\ users[user].role # "EDITOR"
       THEN response' = Denied("edit_article", user, "Forbidden")
            /\ UNCHANGED articles
       ELSE IF method # "POST"
       THEN response' = [op |-> "edit_article", user |-> user, status |-> "OK",
                         method |-> method, article |-> article_id,
                         was_approved |-> articles[article_id].approved]
            /\ UNCHANGED articles
       ELSE /\ articles' = [articles EXCEPT ![article_id] =
                  [title |-> title, content |-> content,
                   author |-> @.author,
                   publisher |-> IF pub_id = "independent" THEN None
                                 ELSE IF pub_id # "" THEN ParsePk(pub_id)
                                 ELSE @.publisher,
                   approved |-> FALSE]]
            /\ response' = [op |-> "edit_article", user |-> user,
                            status |-> "OK", method |-> method,
                            article |-> article_id,
                            was_approved |-> articles[article_id].approved]

\* The bodies an update is sent with: PUT carries title and content, PATCH
\* any of the writable fields.
UpdateFields == {{"title", "content"}, {"title", "content", "publisher"},
                 {"title"}, {"content"}, {"publisher"}}

\* api_views.py:80-81 with :46-50, the update and partial_update actions:
\* UpdateModelMixin writes the validated fields and saves; approved and
\* author are read-only (serializers.py:46) and there is no perform_update.
api_update(user, pk, fields, title, content, publisher) ==
    /\ RestUnchanged
    /\ UNCHANGED next_article_id
    /\ IF pk \notin DOMAIN articles
       THEN response' = Denied("api_update", user, "NotFound")
            /\ UNCHANGED articles
       ELSE IF ~is_authenticated(user)
       THEN response' = Denied("api_update", user, "ServerError")
            /\ UNCHANGED articles
       ELSE IF ~IsAuthorOrEditor(user, articles[pk].author)
       THEN response' = Denied("api_update", user, "Forbidden")
            /\ UNCHANGED articles
       ELSE /\ articles' = [articles EXCEPT ![pk] =
                  [title |-> IF "title" \in fields THEN title ELSE @.title,
                   content |-> IF "content" \in fields THEN content
                               ELSE @.content,
                   author |-> @.author,
                   publisher |-> IF "publisher" \in fields THEN publisher
                                 ELSE @.publisher,
                   approved |-> @.approved]]
            /\ response' = [op |-> "api_update", user |-> user,
                            status |-> "OK",
                            method |-> IF {"title", "content"} \subseteq fields
                                       THEN "PUT" ELSE "PATCH",
                            article |-> pk,
                            was_approved |-> articles[pk].approved]

\* An approve that sends with fail_silently=True: a failed send goes unseen.
ApprovalStatusSendSwallowed(mail_ok, announce) == "OK"

\* An approve whose announce call is not wrapped in try/except.
ApprovalStatusAnnounceFatal(mail_ok, announce) ==
    IF mail_ok /\ announce # "failed" THEN "OK" ELSE "ServerError"

\* views.py:139-163, api_views.py:116-127: a failed send_mail raises out of
\* the view; a failed announce call only changes the flash message.
ApprovalStatus(mail_ok, announce) == IF mail_ok THEN "OK" ELSE "ServerError"

\* An approve that notifies only when the flag was false before.
ApprovalNotifiesOnce(op, user, a, mail_ok, announce) ==
    [op |-> op, user |-> user, article |-> a,
     status |-> IF mail_ok THEN "OK" ELSE "ServerError",
     method |-> "POST",
     was_approved |-> articles[a].approved,
     recipients |-> Recipients(articles[a].author, articles[a].publisher),
     sends |-> IF articles[a].approved THEN 0 ELSE 1, delivered |-> mail_ok,
     announce |-> announce]

\* What an approve request returns once the row is written: the one
\* send_mail call it made and to whom, the announce call's outcome.
Approval(op, user, a, mail_ok, announce) ==
    [op |-> op, user |-> user, article |-> a,
     status |-> ApprovalStatus(mail_ok, announce),
     method |-> "POST",
     was_approved |-> articles[a].approved,
     recipients |-> Recipients(articles[a].author, articles[a].publisher),
     sends |-> 1, delivered |-> mail_ok,
     announce |-> announce]

\* views.py:106-165, approve_article.  send_mail(fail_silently=False) raises
\* when the send fails; requests.post raises RequestException when the
\* network fails, which :160 catches.
approve_article(user, article_id, method, mail_ok, announce_ok) ==
    /\ RestUnchanged
    /\ UNCHANGED next_article_id
    /\ IF ~is_authenticated(user)
       THEN response' = Denied("approve_article", user, "Unauthenticated")
            /\ UNCHANGED articles
       ELSE IF ~is_editor(user)
       THEN response' = Denied("approve_article", user, "Forbidden")
            /\ UNCHANGED articles
       ELSE IF article_id \notin DOMAIN articles
       THEN response' = Denied("approve_article", user, "NotFound")
            /\ UNCHANGED articles
       ELSE IF method # "POST"
       THEN response' = [op |-> "approve_article", user |-> user,
                         status |-> "OK", method |-> method,
                         article |-> article_id,
                         was_approved |-> articles[article_id].approved]
            /\ UNCHANGED articles
       ELSE /\ articles' = [articles EXCEPT ![article_id].approved = TRUE]
            /\ response' = Approval("approve_article", user, article_id,
                              mail_ok,
                              IF ~mail_ok THEN "not_attempted"
                              ELSE IF announce_ok THEN "ok" ELSE "failed")

\* api_views.py:83-84 and :96-127, the approve action.
api_approve(user, pk, mail_ok) ==
    /\ RestUnchanged
    /\ UNCHANGED next_article_id
    /\ IF ~is_authenticated(user)
       THEN response' = Denied("api_approve", user, "Unauthenticated")
            /\ UNCHANGED articles
       ELSE IF ~IsEditor(user)
       THEN response' = Denied("api_approve", user, "Forbidden")
            /\ UNCHANGED articles
       ELSE IF pk \notin DOMAIN articles
       THEN response' = Denied("api_approve", user, "NotFound")
            /\ UNCHANGED articles
       ELSE /\ articles' = [articles EXCEPT ![pk].approved = TRUE]
            /\ response' = Approval("api_approve", user, pk, mail_ok,
                                    "not_attempted")

\* views.py:277-285, delete_article (any method).
delete_article(user, article_id) ==
    /\ UsersUnchanged
    /\ UNCHANGED <<next_article_id, next_newsletter_id>>
    /\ IF ~is_authenticated(user)
       THEN response' = Denied("delete_article", user, "Unauthenticated")
            /\ UNCHANGED <<articles, newsletters, comments>>
       ELSE IF ~is_staff_member(user)
       THEN response' = Denied("delete_article", user, "Forbidden")
            /\ UNCHANGED <<articles, newsletters, comments>>
       ELSE IF article_id \notin DOMAIN articles
       THEN response' = Denied("delete_article", user, "NotFound")
            /\ UNCHANGED <<articles, newsletters, comments>>
       ELSE IF user = articles[article_id].author \/ users[user].role = "EDITOR"
       THEN /\ articles' = Deleted(article_id)
            /\ newsletters' = WithoutArticle(article_id)
            /\ comments' = CommentsWithout(article_id)
            /\ response' = [op |-> "delete_article", user |-> user,
                            status |-> "OK", article |-> article_id]
       ELSE response' = Denied("delete_article", user, "Forbidden")
            /\ UNCHANGED <<articles, newsletters, comments>>

\* api_views.py:80-81 with :46-50, the destroy action.
api_destroy(user, pk) ==
    /\ UsersUnchanged
    /\ UNCHANGED <<next_article_id, next_newsletter_id>>
    /\ IF pk \notin DOMAIN articles
       THEN response' = Denied("api_destroy", user, "NotFound")
            /\ UNCHANGED <<articles, newsletters, comments>>
       ELSE IF ~is_authenticated(user)
       THEN response' = Denied("api_destroy", user, "ServerError")
            /\ UNCHANGED <<articles, newsletters, comments>>
       ELSE IF ~IsAuthorOrEditor(user, articles[pk].author)
       THEN response' = Denied("api_destroy", user, "Forbidden")
            /\ UNCHANGED <<articles, newsletters, comments>>
       ELSE /\ articles' = Deleted(pk)
            /\ newsletters' = WithoutArticle(pk)
            /\ comments' = CommentsWithout(pk)
            /\ response' = [op |-> "api_destroy", user |-> user,
                            status |-> "OK", article |-> pk]

\* A feed that forgot the approved=True filters.
FeedUnfiltered(user) ==
    {a \in DOMAIN articles :
        <<user, articles[a].author>> \in subscribed_journalists}
    \cup {a \in DOMAIN articles :
            /\ articles[a].publisher # None
            /\ <<user, articles[a].publisher>> \in subscribed_publishers}

\* api_views.py:134-141: the approved articles whose author has `user`
\* among journalist_followers, or-ed with the approved articles whose
\* publisher has `user` among subscribed_readers; distinct() leaves each
\* article once.
Feed(user) ==
    {a \in ApprovedArticles :
        <<user, articles[a].author>> \in subscribed_journalists}
    \cup {a \in ApprovedArticles :
            /\ articles[a].publisher # None
            /\ <<user, articles[a].publisher>> \in subscribed_publishers}

\* order_by("-created_at") (api_views.py:141): the newest row, the one with
\* the highest pk, first.
RECURSIVE Newest(_)
Newest(ids) ==
    IF ids = {} THEN <<>>
    ELSE LET top == CHOOSE a \in ids : \A b \in ids : b <= a
         IN <<top>> \o Newest(ids \ {top})

\* api_views.py:85-86 and :129-143, the subscribed action.
api_subscribed(user) ==
    /\ ArticleUnchanged /\ RestUnchanged
    /\ IF ~is_authenticated(user)
       THEN response' = Denied("api_subscribed", user, "Unauthenticated")
       ELSE response' = [op |-> "api_subscribed", user |-> user,
                         status |-> "OK", items |-> Newest(Feed(user))]

----------------------------------------------------------------------------
(* The specifications of the article handlers: an Editor, a Journalist and  *)
(* a Reader, as in the setUp of tests.py, one request at a time.            *)

Callers == {AnonymousUser} \cup UserIds

\* What the publisher <select> of the forms can post (views.py:226-231,
\* :258-264).
PublisherChoices == {"independent", ""} \cup {PkString(e) : e \in Editors}

\* The form a page request carries: a GET carries none.
FormFor(method) ==
    IF method = "POST" THEN Titles \X Contents \X PublisherChoices
    ELSE {<<"", "", "">>}

\* What a create request carries next to the form: a GET carries nothing.
ExtrasFor(method) == IF method = "POST" THEN Extras ELSE {NoExtras}

\* The values of a request body that names `fields`; a field it does not
\* name has no value to choose.
BodyFor(fields) ==
    (IF "title" \in fields THEN Titles ELSE {""})
    \X (IF "content" \in fields THEN Contents ELSE {""})
    \X (IF "publisher" \in fields THEN {None} \cup Editors ELSE {None})

\* How the two outbound calls of an approve POST can end: the announce call
\* is only made after a send that succeeded.
OutcomesFor(method) ==
    IF method = "POST" THEN {<<TRUE, TRUE>>, <<TRUE, FALSE>>, <<FALSE, FALSE>>}
    ELSE {<<TRUE, TRUE>>}

Staff(reader_email) ==
       (1 :> SavedRow("EDITOR", FALSE, FALSE, "e@x"))
    @@ (2 :> SavedRow("JOURNALIST", FALSE, FALSE, "j@x"))
    @@ (3 :> SavedRow("READER", FALSE, FALSE, reader_email))

\* The life of an article: created, edited, approved, deleted, listed.
ArticleInit ==
    /\ users = Staff("r@x")
    /\ subscribed_publishers = {}
    /\ subscribed_journalists = {}
    /\ articles = <<>>
    /\ next_article_id = 1
    /\ newsletters = <<>>
    /\ next_newsletter_id = 1
    /\ EMAIL_HOST_USER = ""
    /\ comments = <<>>
    /\ groups = GroupsOfRoles(users)
    /\ response = NoResponse
    /\ inflight = [w \in Workers |-> Idle]
    /\ started = 0

ArticleNext ==
    \/ \E user \in Callers : index(user)
    \/ \E user \in Callers : api_list(user)
    \/ \E user \in Callers, method \in Methods :
          \E form \in FormFor(method), extras \in ExtrasFor(method) :
             create_article_sent(user, method, form[1], form[2], form[3],
                                 extras)
    \/ \E user \in Callers, title \in Titles, content \in Contents,
          publisher \in {None} \cup Editors, extras \in Extras :
          api_create_sent(user, title, content, publisher, extras)
    \/ \E user \in Callers, a \in ArticleIds, method \in Methods :
          \E form \in FormFor(method) :
             edit_article(user, a, method, form[1], form[2], form[3])
    \/ \E user \in Callers, a \in ArticleIds, fields \in UpdateFields :
          \E body \in BodyFor(fields) :
             api_update(user, a, fields, body[1], body[2], body[3])
    \/ \E user \in Callers, a \in ArticleIds, method \in Methods :
          \E outcome \in OutcomesFor(method) :
             approve_article(user, a, method, outcome[1], outcome[2])
    \/ \E user \in Callers, a \in ArticleIds, mail_ok \in BOOLEAN :
          api_approve(user, a, mail_ok)
    \/ \E user \in Callers, a \in ArticleIds : delete_article(user, a)
    \/ \E user \in Callers, a \in ArticleIds : api_destroy(user, a)

ArticleSpec == ArticleInit /\ [][ArticleNext]_vars

\* The approval notification: subscriptions toggled, articles created,
\* approved and sent back to review, with either setting of the operator
\* address (settings.py:132 defaults it to "") and a Reader with or without
\* an email address.
NotifyInit ==
    /\ \E reader_email \in {"", "r@x"} : users = Staff(reader_email)
    /\ subscribed_publishers = {}
    /\ subscribed_journalists = {}
    /\ articles = <<>>
    /\ next_article_id = 1
    /\ newsletters = <<>>
    /\ next_newsletter_id = 1
    /\ EMAIL_HOST_USER \in {"", "ops@x"}
    /\ comments = <<>>
    /\ groups = GroupsOfRoles(users)
    /\ response = NoResponse
    /\ inflight = [w \in Workers |-> Idle]
    /\ started = 0

\* The subscriptions this specification toggles: to the Journalist as a
\* journalist, to the Editor as a publisher.
NotifyFollows == {<<2, "journalist">>, <<1, "publisher">>}

NotifyNext ==
    \/ \E user \in Callers, follow \in NotifyFollows :
          toggle_subscribe(user, follow[1], follow[2])
    \/ \E user \in Callers, p_id \in PublisherChoices :
          create_article(user, "POST", "t1", "c1", p_id)
    \/ \E user \in Callers, publisher \in {None} \cup Editors :
          api_create(user, "t1", "c1", publisher)
    \/ \E user \in Callers, a \in ArticleIds, pub_id \in PublisherChoices :
          edit_article(user, a, "POST", "t1", "c1", pub_id)
    \/ \E user \in Callers, a \in ArticleIds, method \in Methods :
          \E outcome \in OutcomesFor(method) :
             approve_article(user, a, method, outcome[1], outcome[2])
    \/ \E user \in Callers, a \in ArticleIds, mail_ok \in BOOLEAN :
          api_approve(user, a, mail_ok)
    \/ \E user \in Callers : api_subscribed(user)

NotifySpec == NotifyInit /\ [][NotifyNext]_vars

----------------------------------------------------------------------------
(* Claims about articles and their approval *)

\* The last request was an approve request that wrote the row and called
\* send_mail.
ApproveRan ==
    /\ response.op \in {"approve_article", "api_approve"}
    /\ response.status \in {"OK", "ServerError"}
    /\ response.method = "POST"

\* C3: the article list an unauthenticated caller or a Reader gets, from the
\* index page and from the API list action, holds no article whose approved
\* flag is false.
C3_ListsOnlyApproved ==
    (/\ response.op \in {"index", "api_list"}
     /\ (response.user = AnonymousUser \/ users[response.user].role = "READER"))
    => \A item \in response.items :
          item.id \in DOMAIN articles /\ articles[item.id].approved

C3_Witness ==
    /\ response.op = "api_list"
    /\ response.user # AnonymousUser
    /\ users[response.user].role = "READER"
    /\ \E a \in DOMAIN articles :
          /\ ~articles[a].approved
          /\ \A item \in response.items : item.id # a

\* C4: the recipients of the email an approve request sends (page POST and
\* API action) hold the email of every user who follows the article's author
\* in the journalist relation and has a non-empty email.
C4_FollowersNotified ==
    ApproveRan
    => \A r \in DOMAIN users :
          (/\ <<r, articles[response.article].author>> \in subscribed_journalists
           /\ users[r].email # "")
          => users[r].email \in response.recipients

C4_Witness ==
    /\ ApproveRan
    /\ response.op = "api_approve"
    /\ response.delivered
    /\ <<3, articles[response.article].author>> \in subscribed_journalists
    /\ users[3].email = "r@x"
    /\ "r@x" \in response.recipients

\* C5: every successful edit of an article, by the page's POST and by the
\* API's update and partial_update, leaves the article with approved = false.
C5_EditResetsApproval ==
    (/\ response.op \in {"edit_article", "api_update"}
     /\ response.status = "OK"
     /\ response.method \in {"POST", "PUT", "PATCH"})
    => ~articles[response.article].approved

\* C6: when an Editor approves an unapproved article and the send succeeds,
\* the article is approved afterwards, one send_mail call was made, and the
\* request succeeds whether the announce call succeeded or failed.
C6_ApproveSucceeds ==
    (/\ ApproveRan
     /\ users[response.user].role = "EDITOR"
     /\ ~response.was_approved
     /\ response.delivered)
    => (/\ articles[response.article].approved
        /\ response.sends = 1
        /\ response.status = "OK")

C6_Witness ==
    /\ ApproveRan
    /\ response.op = "approve_article"
    /\ users[response.user].role = "EDITOR"
    /\ ~response.was_approved
    /\ response.delivered
    /\ response.announce = "failed"
    /\ response.status = "OK"
    /\ articles[response.article].approved
    /\ {"ops@x", "r@x"} \subseteq response.recipients

\* C7: an API create request of an authenticated user whose role is READER
\* ends Forbidden and leaves the article rows as they were.
C7_ReaderCannotCreate ==
    [][\A user \in UserIds, title \in Titles, content \in Contents,
          publisher \in {None} \cup UserIds :
          (/\ response'.op = "api_create"
           /\ response'.user = user
           /\ user \in DOMAIN users
           /\ users[user].role = "READER"
           /\ api_create(user, title, content, publisher))
          => (/\ response'.status = "Forbidden"
              /\ UNCHANGED <<articles, next_article_id>>)]_vars

C7_Witness ==
    /\ response.op = "api_create"
    /\ response.status = "Forbidden"
    /\ users[response.user].role = "READER"
    /\ articles # <<>>

----------------------------------------------------------------------------
(* Who may do what: the page predicates against the API permission classes *)

\* user 1 an Editor, user 2 a Journalist, user 3 of any role, superuser or
\* not (createsuperuser leaves the role at its default, READER).
AuthzInit ==
    /\ \E role \in Roles, is_superuser \in BOOLEAN :
          users = (1 :> SavedRow("EDITOR", FALSE, FALSE, "e@x"))
               @@ (2 :> SavedRow("JOURNALIST", FALSE, FALSE, "j@x"))
               @@ (3 :> SavedRow(role, FALSE, is_superuser, "r@x"))
    /\ subscribed_publishers = {}
    /\ subscribed_journalists = {}
    /\ articles = <<>>
    /\ next_article_id = 1
    /\ newsletters = <<>>
    /\ next_newsletter_id = 1
    /\ EMAIL_HOST_USER = "ops@x"
    /\ comments = <<>>
    /\ groups = GroupsOfRoles(users)
    /\ response = NoResponse
    /\ inflight = [w \in Workers |-> Idle]
    /\ started = 0

AuthzNext ==
    \/ \E user \in Callers : create_article(user, "POST", "t1", "c1", "independent")
    \/ \E user \in Callers : api_create(user, "t1", "c1", None)
    \/ \E user \in Callers, a \in ArticleIds, title \in Titles :
          edit_article(user, a, "POST", title, "c1", "")
    \/ \E user \in Callers, a \in ArticleIds, title \in Titles :
          api_update(user, a, {"title"}, title, "", None)
    \/ \E user \in Callers, a \in ArticleIds :
          approve_article(user, a, "POST", TRUE, TRUE)
    \/ \E user \in Callers, a \in ArticleIds : api_approve(user, a, TRUE)
    \/ \E user \in Callers, a \in ArticleIds : delete_article(user, a)
    \/ \E user \in Callers, a \in ArticleIds : api_destroy(user, a)

AuthzSpec == AuthzInit /\ [][AuthzNext]_vars

\* C11: for every user value the API permission class grants exactly when
\* the page predicate does: IsEditor as is_editor, IsJournalist as
\* is_journalist.
C11_ApiMatchesPage ==
    \A user \in Callers :
        /\ IsEditor(user) <=> is_editor(user)
        /\ IsJournalist(user) <=> is_journalist(user)

\* The rule of the claim: the author, an Editor or a superuser.
MayMutate(user, author) ==
    user = author \/ users[user].role = "EDITOR" \/ users[user].is_superuser

\* C12: an edit or delete request of an authenticated user on an existing
\* article (page and API) takes effect exactly when the user is the
\* article's author, an Editor or a superuser; otherwise it is denied and
\* the article rows are unchanged.
C12_OwnershipRule ==
    [][\A user \in UserIds, a \in ArticleIds, title \in Titles :
          (/\ response'.op \in {"edit_article", "api_update",
                                "delete_article", "api_destroy"}
           /\ a \in DOMAIN articles
           /\ \/ edit_article(user, a, "POST", title, "c1", "")
              \/ api_update(user, a, {"title"}, title, "", None)
              \/ delete_article(user, a)
              \/ api_destroy(user, a))
          => IF MayMutate(user, articles[a].author)
             THEN response'.status = "OK"
             ELSE response'.status = "Forbidden" /\ UNCHANGED articles]_vars

----------------------------------------------------------------------------
(* Newsletters: the page views and NewsletterViewSet *)

\* Rows news_newsletter is given in one behaviour.
MaxNewsletters == 1

NewsletterIds == 1..MaxNewsletters

Descriptions == {"d1", "d2"}

NewsletterInserted(row) == newsletters @@ (next_newsletter_id :> row)

NewsletterDeleted(n) == [m \in DOMAIN newsletters \ {n} |-> newsletters[m]]

NewsletterRest ==
    /\ UsersUnchanged
    /\ CommentsUnchanged
    /\ ArticleUnchanged

\* views.py:309-340, edit_newsletter: the create form (newsletter_id None)
\* and the edit form.  Past the two decorators nothing asks who the author
\* of the newsletter is.
edit_newsletter(user, newsletter_id, method, title, desc, a_ids) ==
    /\ NewsletterRest
    /\ IF ~is_authenticated(user)
       THEN response' = Denied("edit_newsletter", user, "Unauthenticated")
            /\ NewsletterUnchanged
       ELSE IF ~is_staff_member(user)
       THEN response' = Denied("edit_newsletter", user, "Forbidden")
            /\ NewsletterUnchanged
       ELSE IF newsletter_id # None /\ newsletter_id \notin DOMAIN newsletters
       THEN response' = Denied("edit_newsletter", user, "NotFound")
            /\ NewsletterUnchanged
       ELSE IF method # "POST"
       THEN response' = [op |-> "edit_newsletter", user |-> user,
                         status |-> "OK", method |-> method]
            /\ NewsletterUnchanged
       ELSE IF newsletter_id = None
       THEN /\ next_newsletter_id \in NewsletterIds
            /\ newsletters' = NewsletterInserted(
                  [title |-> title, description |-> desc, author |-> user,
                   articles |-> a_ids])
            /\ next_newsletter_id' = next_newsletter_id + 1
            /\ response' = [op |-> "edit_newsletter", user |-> user,
                            status |-> "OK", method |-> method,
                            newsletter |-> next_newsletter_id]
       ELSE /\ newsletters' = [newsletters EXCEPT ![newsletter_id] =
                  [title |-> title, description |-> desc,
                   author |-> @.author, articles |-> a_ids]]
            /\ UNCHANGED next_newsletter_id
            /\ response' = [op |-> "edit_newsletter", user |-> user,
                            status |-> "OK", method |-> method,
                            newsletter |-> newsletter_id]

\* views.py:343-351, delete_newsletter (any method).
delete_newsletter(user, newsletter_id) ==
    /\ NewsletterRest
    /\ UNCHANGED next_newsletter_id
    /\ IF ~is_authenticated(user)
       THEN response' = Denied("delete_newsletter", user, "Unauthenticated")
            /\ UNCHANGED newsletters
       ELSE IF ~is_staff_member(user)
       THEN response' = Denied("delete_newsletter", user, "Forbidden")
            /\ UNCHANGED newsletters
       ELSE IF newsletter_id \notin DOMAIN newsletters
       THEN response' = Denied("delete_newsletter", user, "NotFound")
            /\ UNCHANGED newsletters
       ELSE IF user = newsletters[newsletter_id].author
               \/ users[user].role = "EDITOR"
       THEN /\ newsletters' = NewsletterDeleted(newsletter_id)
            /\ response' = [op |-> "delete_newsletter", user |-> user,
                            status |-> "OK", newsletter |-> newsletter_id]
       ELSE response' = Denied("delete_newsletter", user, "Forbidden")
            /\ UNCHANGED newsletters

\* api_views.py:152-158 with :43-50, the create action of NewsletterViewSet.
\* IsAuthorOrEditor defines has_object_permission only; has_permission is
\* BasePermission's, which grants, and create asks for no object.  author is
\* a writable field of the serializer (serializers.py:62-72) and there is no
\* perform_create: the row gets the author the body names.
api_newsletter_create(user, title, desc, author) ==
    /\ NewsletterRest
    /\ next_newsletter_id \in NewsletterIds
    /\ author \in DOMAIN users
    /\ newsletters' = NewsletterInserted(
          [title |-> title, description |-> desc, author |-> author,
           articles |-> {}])
    /\ next_newsletter_id' = next_newsletter_id + 1
    /\ response' = [op |-> "api_newsletter_create", user |-> user,
                    status |-> "OK", newsletter |-> next_newsletter_id]

\* The bodies a newsletter update is sent with: PUT carries the three
\* writable fields, PATCH any of them.
NewsletterFields == {{"title", "description", "author"}, {"title"}, {"author"}}

\* api_views.py:154-155 with :46-50, the update and partial_update actions.
api_newsletter_update(user, pk, fields, title, desc, author) ==
    /\ NewsletterRest
    /\ UNCHANGED next_newsletter_id
    /\ IF pk \notin DOMAIN newsletters
       THEN response' = Denied("api_newsletter_update", user, "NotFound")
            /\ UNCHANGED newsletters
       ELSE IF ~is_authenticated(user)
       THEN response' = Denied("api_newsletter_update", user, "ServerError")
            /\ UNCHANGED newsletters
       ELSE IF ~IsAuthorOrEditor(user, newsletters[pk].author)
       THEN response' = Denied("api_newsletter_update", user, "Forbidden")
            /\ UNCHANGED newsletters
       ELSE /\ author \in DOMAIN users
            /\ newsletters' = [newsletters EXCEPT ![pk] =
                  [title |-> IF "title" \in fields THEN title ELSE @.title,
                   description |-> IF "description" \in fields THEN desc
                                   ELSE @.description,
                   author |-> IF "author" \in fields THEN author
                              ELSE @.author,
                   articles |-> @.articles]]
            /\ response' = [op |-> "api_newsletter_update", user |-> user,
                            status |-> "OK", newsletter |-> pk]

\* api_views.py:154-155 with :46-50, the destroy action.
api_newsletter_destroy(user, pk) ==
    /\ NewsletterRest
    /\ UNCHANGED next_newsletter_id
    /\ IF pk \notin DOMAIN newsletters
       THEN response' = Denied("api_newsletter_destroy", user, "NotFound")
            /\ UNCHANGED newsletters
       ELSE IF ~is_authenticated(user)
       THEN response' = Denied("api_newsletter_destroy", user, "ServerError")
            /\ UNCHANGED newsletters
       ELSE IF ~IsAuthorOrEditor(user, newsletters[pk].author)
       THEN response' = Denied("api_newsletter_destroy", user, "Forbidden")
            /\ UNCHANGED newsletters
       ELSE /\ newsletters' = NewsletterDeleted(pk)
            /\ response' = [op |-> "api_newsletter_destroy", user |-> user,
                            status |-> "OK", newsletter |-> pk]

\* user 1 an Editor, user 2 a Journalist, user 3 of any role, superuser or
\* not; one approved article of user 2 for the newsletters to collect.
NewsletterInit ==
    /\ \E role \in Roles, is_superuser \in BOOLEAN :
          users = (1 :> SavedRow("EDITOR", FALSE, FALSE, "e@x"))
               @@ (2 :> SavedRow("JOURNALIST", FALSE, FALSE, "j@x"))
               @@ (3 :> SavedRow(role, FALSE, is_superuser, "r@x"))
    /\ subscribed_publishers = {}
    /\ subscribed_journalists = {}
    /\ articles = (1 :> [title |-> "t1", content |-> "c1", author |-> 2,
                         publisher |-> None, approved |-> TRUE])
    /\ next_article_id = 2
    /\ newsletters = <<>>
    /\ next_newsletter_id = 1
    /\ EMAIL_HOST_USER = "ops@x"
    /\ comments = <<>>
    /\ groups = GroupsOfRoles(users)
    /\ response = NoResponse
    /\ inflight = [w \in Workers |-> Idle]
    /\ started = 0

NewsletterNext ==
    \/ \E user \in Callers, n \in {None} \cup NewsletterIds,
          method \in Methods, title \in Titles, a_ids \in SUBSET DOMAIN articles :
          edit_newsletter(user, n, method, title, "d1", a_ids)
    \/ \E user \in Callers, n \in NewsletterIds : delete_newsletter(user, n)
    \/ \E user \in Callers, author \in UserIds :
          api_newsletter_create(user, "t1", "d1", author)
    \/ \E user \in Callers, n \in NewsletterIds, fields \in NewsletterFields,
          desc \in Descriptions, author \in UserIds :
          api_newsletter_update(user, n, fields, "t2", desc, author)
    \/ \E user \in Callers, n \in NewsletterIds :
          api_newsletter_destroy(user, n)

NewsletterSpec == NewsletterInit /\ [][NewsletterNext]_vars

\* C13: a newsletter that exists is changed or removed only by a request of
\* its author, of an Editor or of a superuser, and a newsletter is created
\* only by a request of an authenticated user who is not a plain Reader.
C13_NewsletterOwnership ==
    [][/\ \A n \in DOMAIN newsletters :
             (n \notin DOMAIN newsletters' \/ newsletters'[n] # newsletters[n])
             => (/\ is_authenticated(response'.user)
                 /\ MayMutate(response'.user, newsletters[n].author))
       /\ (DOMAIN newsletters' # DOMAIN newsletters
           /\ DOMAIN newsletters \subseteq DOMAIN newsletters')
          => (/\ is_authenticated(response'.user)
              /\ (users[response'.user].role # "READER"
                  \/ users[response'.user].is_superuser))]_vars

----------------------------------------------------------------------------
(* Claims about the approval notification and the approve request *)

\* The non-empty emails of the users who follow `target` in `rel`.
EmailsOfFollowers(rel, target) ==
    {users[r].email : r \in {u \in DOMAIN users :
                                <<u, target>> \in rel /\ users[u].email # ""}}

\* C14: the recipients of the email an approve request sends are exactly
\* the operator address, the emails of the readers who follow the article's
\* publisher (when it has one) and the emails of the readers who follow its
\* author; no recipient is the empty string, also when the operator address
\* is configured empty.
C14_RecipientsExact ==
    ApproveRan
    => LET a == articles[response.article] IN
       /\ response.recipients =
             {EMAIL_HOST_USER}
             \cup (IF a.publisher # None
                   THEN EmailsOfFollowers(subscribed_publishers, a.publisher)
                   ELSE {})
             \cup EmailsOfFollowers(subscribed_journalists, a.author)
       /\ "" \notin response.recipients

\* C15: when the send of the notification email fails, the approve request
\* ends in a server error, the article is approved all the same (the row was
\* written before the send) and the announce call is not made.
C15_SendFailureIsFatal ==
    (ApproveRan /\ ~response.delivered)
    => (/\ response.status = "ServerError"
        /\ articles[response.article].approved
        /\ response.announce = "not_attempted")

C15_Witness ==
    /\ ApproveRan
    /\ response.op = "approve_article"
    /\ ~response.delivered
    /\ ~response.was_approved
    /\ response.status = "ServerError"
    /\ articles[response.article].approved

\* C16: an approve request of an authenticated caller who is neither an
\* Editor nor a superuser ends Forbidden, one of an Editor or superuser for
\* an article id that does not exist ends NotFound; either way no email is
\* sent, no announce call is made and the article rows are unchanged.  An
\* edit or delete request that is denied or names a missing article changes
\* no row either.
C16_FailFast ==
    [][/\ \A user \in UserIds, a \in ArticleIds :
             (/\ response'.op \in {"approve_article", "api_approve"}
              /\ \/ users[user].role # "EDITOR" /\ ~users[user].is_superuser
                 \/ a \notin DOMAIN articles
              /\ \/ approve_article(user, a, "POST", TRUE, TRUE)
                 \/ api_approve(user, a, TRUE))
             => (/\ response'.status =
                      IF users[user].role # "EDITOR" /\ ~users[user].is_superuser
                      THEN "Forbidden" ELSE "NotFound"
                 /\ DOMAIN response' = {"op", "user", "status"}
                 /\ UNCHANGED <<articles, next_article_id>>)
       /\ (/\ response'.op \in {"edit_article", "api_update",
                                 "delete_article", "api_destroy"}
           /\ response'.status # "OK")
          => UNCHANGED <<articles, next_article_id>>]_vars

C16_Witness ==
    /\ response.op = "approve_article"
    /\ response.status = "Forbidden"
    /\ users[response.user].role = "JOURNALIST"
    /\ \E a \in DOMAIN articles : ~articles[a].approved

\* C17: an approve request (page POST and API action) for an article that
\* is approved already leaves the article rows as they were and calls
\* send_mail again.
C17_ReapproveResends ==
    [][(/\ response'.op \in {"approve_article", "api_approve"}
        /\ response'.status \in {"OK", "ServerError"}
        /\ response'.method = "POST"
        /\ response'.was_approved)
       => (/\ UNCHANGED <<articles, next_article_id>>
           /\ response'.sends = 1)]_vars

C17_Witness ==
    /\ ApproveRan
    /\ response.op = "api_approve"
    /\ response.was_approved
    /\ response.delivered
    /\ response.sends = 1
    /\ "r@x" \in response.recipients

----------------------------------------------------------------------------
(* Approve requests that interleave: one ORM call or outbound call per step, *)
(* each worker one request.                                                  *)

ApproveOps == {"approve_article", "api_approve"}

\* A save that writes the instance back as it was loaded.
SavedAsLoaded(row) == row

\* views.py:122-123, api_views.py:100-101: the instance loaded by the
\* request, with approved set, is what article.save() writes.
SavedApproved(row) == [row EXCEPT !.approved = TRUE]

\* Model.save() of an instance with a pk: the row is updated, or inserted
\* when no row has that pk any more.
RowSaved(a, row) ==
    IF a \in DOMAIN articles THEN [articles EXCEPT ![a] = row]
    ELSE articles @@ (a :> row)

ApproveRest ==
    UNCHANGED <<users, subscribed_publishers, subscribed_journalists,
                next_article_id, newsletters, next_newsletter_id,
                EMAIL_HOST_USER, comments, groups, started>>

\* The request of worker w ends: its outcome stays with the worker.
Done(w, status, sends, announce) ==
    /\ inflight' = [inflight EXCEPT ![w] =
           [pc |-> "done", op |-> inflight[w].op, status |-> status,
            was_approved |-> inflight[w].row.approved,
            sends |-> sends, announce |-> announce]]
    /\ response' = [op |-> inflight[w].op, user |-> inflight[w].user,
                    article |-> inflight[w].article, status |-> status,
                    method |-> "POST",
                    was_approved |-> inflight[w].row.approved,
                    recipients |-> inflight[w].recipients,
                    sends |-> sends, delivered |-> status = "OK",
                    announce |-> announce]

\* views.py:106-119, api_views.py:83-84 and :99: the permission test and the
\* load of the article.
approve_begin(w, op, user, a) ==
    /\ inflight[w].pc = "idle"
    /\ ApproveRest
    /\ UNCHANGED articles
    /\ LET refused(status) ==
              /\ inflight' = [inflight EXCEPT ![w] =
                     [pc |-> "done", op |-> op, status |-> status,
                      was_approved |-> FALSE,
                      sends |-> 0, announce |-> "not_attempted"]]
              /\ response' = Denied(op, user, status)
           granted == IF op = "approve_article" THEN is_editor(user)
                      ELSE IsEditor(user)
       IN IF ~is_authenticated(user) THEN refused("Unauthenticated")
          ELSE IF ~granted THEN refused("Forbidden")
          ELSE IF a \notin DOMAIN articles THEN refused("NotFound")
          ELSE /\ inflight' = [inflight EXCEPT ![w] =
                     [pc |-> "save", op |-> op, user |-> user, article |-> a,
                      row |-> articles[a], recipients |-> {}]]
               /\ UNCHANGED response

\* views.py:122-123, api_views.py:100-101.
approve_save(w) ==
    /\ inflight[w].pc = "save"
    /\ ApproveRest
    /\ articles' = RowSaved(inflight[w].article, SavedApproved(inflight[w].row))
    /\ inflight' = [inflight EXCEPT ![w].pc = "recipients"]
    /\ UNCHANGED response

\* views.py:125-135, api_views.py:104-111.
approve_recipients(w) ==
    /\ inflight[w].pc = "recipients"
    /\ ApproveRest
    /\ UNCHANGED <<articles, response>>
    /\ LET r == inflight[w]
       IN inflight' = [inflight EXCEPT ![w] =
              [r EXCEPT !.pc = "send",
                        !.recipients = Recipients(r.row.author, r.row.publisher)]]

\* views.py:139-148, api_views.py:116-127: send_mail, which raises out of
\* the view when the send fails; the API action returns after it.
approve_send(w, mail_ok) ==
    /\ inflight[w].pc = "send"
    /\ ApproveRest
    /\ UNCHANGED articles
    /\ IF ~mail_ok THEN Done(w, "ServerError", 1, "not_attempted")
       ELSE IF inflight[w].op = "api_approve"
       THEN Done(w, "OK", 1, "not_attempted")
       ELSE /\ inflight' = [inflight EXCEPT ![w].pc = "announce"]
            /\ UNCHANGED response

\* views.py:150-163: requests.post, a failure of which :160 catches.
approve_announce(w, announce_ok) ==
    /\ inflight[w].pc = "announce"
    /\ ApproveRest
    /\ UNCHANGED articles
    /\ Done(w, "OK", 1, IF announce_ok THEN "ok" ELSE "failed")

\* Two Editors (users 1 and 3), the Journalist 2 and an article of theirs
\* that waits for review.
ApproveRaceInit ==
    /\ users = (1 :> SavedRow("EDITOR", FALSE, FALSE, "e@x"))
             @@ (2 :> SavedRow("JOURNALIST", FALSE, FALSE, "j@x"))
             @@ (3 :> SavedRow("EDITOR", FALSE, FALSE, "f@x"))
    /\ subscribed_publishers = {}
    /\ subscribed_journalists = {}
    /\ \E publisher \in {None, 1} :
          articles = (1 :> [title |-> "t1", content |-> "c1", author |-> 2,
                           publisher |-> publisher, approved |-> FALSE])
    /\ next_article_id = 2
    /\ newsletters = <<>>
    /\ next_newsletter_id = 1
    /\ EMAIL_HOST_USER \in {"", "ops@x"}
    /\ comments = <<>>
    /\ groups = GroupsOfRoles(users)
    /\ response = NoResponse
    /\ inflight = [w \in Workers |-> Idle]
    /\ started = 0

ApproveStep(w) ==
    \/ approve_save(w)
    \/ approve_recipients(w)
    \/ \E mail_ok \in BOOLEAN : approve_send(w, mail_ok)
    \/ \E announce_ok \in BOOLEAN : approve_announce(w, announce_ok)

ApproveRaceNext ==
    \E w \in Workers :
        \/ \E op \in ApproveOps, user \in UserIds, a \in ArticleIds :
              approve_begin(w, op, user, a)
        \/ ApproveStep(w)

\* A request that has begun runs to its end: the server keeps executing it.
ApproveRaceSpec ==
    /\ ApproveRaceInit
    /\ [][ApproveRaceNext]_vars
    /\ \A w \in Workers : WF_vars(ApproveStep(w))

----------------------------------------------------------------------------
(* Claims about requests that interleave *)

\* Worker w ran an approve request of an Editor past the load of the article.
Approved(w) ==
    /\ inflight[w].pc = "done"
    /\ inflight[w].status \in {"OK", "ServerError"}

\* C18: when two approve requests of Editors for the same article
\* interleave, each request that has begun comes to its end, and once both
\* have, each has called send_mail once (two sends in all) and the article
\* is approved.
C18_BothApprovalsNotify ==
    /\ []((\A w \in Workers : Approved(w))
          => (/\ \A w \in Workers : inflight[w].sends = 1
              /\ \A a \in DOMAIN articles : articles[a].approved))
    /\ \A w \in Workers :
          (inflight[w].pc \notin {"idle", "done"}) ~> (inflight[w].pc = "done")

\* Both requests loaded the article before either saved it, and both ended.
C18_Witness ==
    /\ \A w \in Workers : Approved(w) /\ inflight[w].sends = 1
    /\ inflight["w1"].op = "approve_article"
    /\ inflight["w2"].op = "api_approve"
    /\ \A w \in Workers : ~inflight[w].was_approved
    /\ articles[1].approved

----------------------------------------------------------------------------
(* Claims about the subscribed feed *)

\* How many times article a is in a feed.
Occurrences(items, a) == Cardinality({i \in DOMAIN items : items[i] = a})

\* C20: the subscribed feed of an authenticated user holds, once each,
\* exactly the approved articles whose author the user follows in the
\* journalist relation or whose publisher the user follows in the publisher
\* relation, and no other article; an unauthenticated caller is refused
\* and gets no article.
C20_SubscribedFeed ==
    response.op = "api_subscribed"
    => IF response.user = AnonymousUser
       THEN response.status = "Unauthenticated"
            /\ "items" \notin DOMAIN response
       ELSE /\ response.status = "OK"
            /\ \A a \in ArticleIds :
                  Occurrences(response.items, a) =
                     IF /\ a \in DOMAIN articles
                        /\ articles[a].approved
                        /\ \/ <<response.user, articles[a].author>>
                                 \in subscribed_journalists
                           \/ /\ articles[a].publisher # None
                              /\ <<response.user, articles[a].publisher>>
                                    \in subscribed_publishers
                     THEN 1 ELSE 0

\* A Reader who follows both the author and the publisher of an approved
\* article gets it once.
C20_Witness ==
    /\ response.op = "api_subscribed"
    /\ response.status = "OK"
    /\ users[response.user].role = "READER"
    /\ Len(response.items) = 1
    /\ LET a == articles[response.items[1]]
       IN /\ <<response.user, a.author>> \in subscribed_journalists
          /\ a.publisher # None
          /\ <<response.user, a.publisher>> \in subscribed_publishers

----------------------------------------------------------------------------
(* Comments, and the whole workflow around one article *)

MaxComments == 1

CommentTexts == {"", "hi"}

\* views.py:357-367, add_comment.  login_required sends an anonymous caller
\* to the login page; the article is fetched by id alone (:360); a POST with
\* a non-empty comment_text inserts the row (:361-365); every other request
\* only redirects (:367).
add_comment(user, article_id, method, text) ==
    /\ UsersUnchanged /\ NewsletterUnchanged /\ ArticleUnchanged
    /\ IF ~is_authenticated(user)
       THEN response' = Denied("add_comment", user, "Unauthenticated")
            /\ CommentsUnchanged
       ELSE IF article_id \notin DOMAIN articles
       THEN response' = Denied("add_comment", user, "NotFound")
            /\ CommentsUnchanged
       ELSE LET posted == method = "POST" /\ text # ""
            IN /\ posted => Len(comments) < MaxComments
               /\ comments' =
                     IF posted
                     THEN Append(comments, [article |-> article_id,
                                            author |-> user, text |-> text])
                     ELSE comments
               /\ response' = [op |-> "add_comment", user |-> user,
                               status |-> "OK", method |-> method,
                               article |-> article_id, text |-> text,
                               was_approved |-> articles[article_id].approved]

\* An Editor with an empty newsletter, a Journalist and a Reader who may be
\* a superuser.
WorkflowInit ==
    /\ \E is_superuser \in BOOLEAN :
          users = (1 :> SavedRow("EDITOR", FALSE, FALSE, "e@x"))
               @@ (2 :> SavedRow("JOURNALIST", FALSE, FALSE, "j@x"))
               @@ (3 :> SavedRow("READER", FALSE, is_superuser, "r@x"))
    /\ subscribed_publishers = {}
    /\ subscribed_journalists = {}
    /\ articles = <<>>
    /\ next_article_id = 1
    /\ newsletters = (1 :> [title |-> "t1", description |-> "d1",
                            author |-> 1, articles |-> {}])
    /\ next_newsletter_id = 2
    /\ EMAIL_HOST_USER = "ops@x"
    /\ comments = <<>>
    /\ groups = GroupsOfRoles(users)
    /\ response = NoResponse
    /\ inflight = [w \in Workers |-> Idle]
    /\ started = 0

WorkflowNext ==
    \/ \E user \in Callers :
          create_article(user, "POST", "t1", "c1", "independent")
    \/ \E user \in Callers : api_create(user, "t1", "c1", None)
    \/ \E user \in Callers, a \in ArticleIds, method \in Methods :
          edit_article(user, a, method, "t2", "c1", "")
    \/ \E user \in Callers, a \in ArticleIds :
          api_update(user, a, {"title"}, "t2", "", None)
    \/ \E user \in Callers, a \in ArticleIds, method \in Methods :
          approve_article(user, a, method, TRUE, TRUE)
    \/ \E user \in Callers, a \in ArticleIds, mail_ok \in BOOLEAN :
          api_approve(user, a, mail_ok)
    \/ \E user \in Callers, a \in ArticleIds : delete_article(user, a)
    \/ \E user \in Callers, a \in ArticleIds : api_destroy(user, a)
    \/ \E user \in {AnonymousUser, 3}, a \in ArticleIds, method \in Methods,
          text \in CommentTexts :
          add_comment(user, a, method, text)
    \/ \E user \in {AnonymousUser, 3} : toggle_subscribe(user, 2, "journalist")
    \/ \E user \in {AnonymousUser, 1} :
          edit_newsletter(user, 1, "POST", "t1", "d1", DOMAIN articles)

WorkflowSpec == WorkflowInit /\ [][WorkflowNext]_vars

\* C22: the approved flag of a stored article goes from false to true only
\* in a POST to one of the approve routes for that article by a user whose
\* role is EDITOR or who is a superuser, and from true to false only in an
\* edit_article request for that article; no other request (create, comment,
\* subscribe, newsletter edit, API update, GET on the approve route, a
\* refused approve) changes the flag of any article.
C22_ApprovedFlagTransitions ==
    [][\A a \in DOMAIN articles \cap DOMAIN articles' :
          /\ (~articles[a].approved /\ articles'[a].approved)
             => (/\ response'.op \in {"approve_article", "api_approve"}
                 /\ response'.method = "POST"
                 /\ response'.article = a
                 /\ response'.user \in DOMAIN users
                 /\ \/ users[response'.user].role = "EDITOR"
                    \/ users[response'.user].is_superuser)
          /\ (articles[a].approved /\ ~articles'[a].approved)
             => (/\ response'.op = "edit_article"
                 /\ response'.status = "OK"
                 /\ response'.article = a)]_vars

\* An approve by a superuser who is no Editor has set the flag.
C22_Witness ==
    /\ response.op = "approve_article"
    /\ response.status = "OK"
    /\ response.method = "POST"
    /\ ~response.was_approved
    /\ articles[response.article].approved
    /\ users[response.user].role # "EDITOR"
    /\ users[response.user].is_superuser
    /\ Len(comments) > 0
    /\ newsletters[1].articles # {}
    /\ subscribed_journalists # {}

\* C23: a request to add_comment that names an unapproved article inserts no
\* comment, whoever the authenticated caller is.
C23_NoCommentOnUnapproved ==
    [][(/\ response'.op = "add_comment"
        /\ response'.status = "OK"
        /\ ~response'.was_approved)
       => comments' = comments]_vars

----------------------------------------------------------------------------
(* Creation: who the author is and whether the article starts approved *)

\* C21: every article stored by a successful create, through the API create
\* action or a POST to the create_article page, has approved = FALSE and the
\* requesting user as its author, whatever approved and author values the
\* request carried.
C21_CreatedUnapprovedByRequester ==
    (/\ response.op \in {"api_create", "create_article"}
     /\ response.status = "OK"
     /\ "article" \in DOMAIN response)
    => (/\ response.article \in DOMAIN articles
        /\ articles[response.article].approved = FALSE
        /\ articles[response.article].author = response.user)

C21_Witness ==
    /\ response.op = "api_create"
    /\ response.status = "OK"
    /\ response.extras.names = {"approved", "author"}
    /\ response.extras.approved = TRUE
    /\ response.extras.author # response.user
    /\ users[response.user].role = "JOURNALIST"
    /\ response.article \in DOMAIN articles

----------------------------------------------------------------------------
(* What the follow edges point at *)

\* C24: every row of the journalist relation points at a user whose role is
\* JOURNALIST and every row of the publisher relation at a user whose role
\* is EDITOR, in every state reached by toggle_subscribe requests and saves.
C24_EdgesPointAtRole ==
    /\ \A e \in subscribed_journalists :
          e[2] \in DOMAIN users /\ users[e[2]].role = "JOURNALIST"
    /\ \A e \in subscribed_publishers :
          e[2] \in DOMAIN users /\ users[e[2]].role = "EDITOR"

----------------------------------------------------------------------------
(* Groups and the role field *)

GroupsOf(u) == {e[2] : e \in {m \in groups : m[1] = u}}

\* C25: when a save of a user has returned, the user is a member of the
\* group named after the stored role and of no group named after another
\* role.
C25_GroupsInSyncWithRole ==
    (response.op \in {"save", "register"})
    => GroupsOf(response.user) = {users[response.user].role}

----------------------------------------------------------------------------
(* An approve and an edit of the same article, one ORM call per step *)

\* views.py:247-264, edit_article on POST up to the save: the load of the
\* row (:250), the permission test (:252-253) and the new values put on the
\* loaded instance (:256-266).
edit_begin(w, user, a, title, content, pub_id) ==
    /\ inflight[w].pc = "idle"
    /\ ApproveRest
    /\ UNCHANGED articles
    /\ LET refused(status) ==
              /\ inflight' = [inflight EXCEPT ![w] =
                     [pc |-> "done", op |-> "edit_article", status |-> status,
                      was_approved |-> FALSE,
                      sends |-> 0, announce |-> "not_attempted"]]
              /\ response' = Denied("edit_article", user, status)
       IN IF ~is_authenticated(user) THEN refused("Unauthenticated")
          ELSE IF a \notin DOMAIN articles THEN refused("NotFound")
          ELSE IF user # articles[a].author /\ users[user].role # "EDITOR"
          THEN refused("Forbidden")
          ELSE /\ inflight' = [inflight EXCEPT ![w] =
                     [pc |-> "edit_save", op |-> "edit_article",
                      user |-> user, article |-> a,
                      row |-> [articles[a] EXCEPT
                                 !.title = title,
                                 !.content = content,
                                 !.publisher =
                                     IF pub_id = "independent" THEN None
                                     ELSE IF pub_id # "" THEN ParsePk(pub_id)
                                     ELSE @,
                                 !.approved = FALSE]]]
               /\ UNCHANGED response

\* views.py:267, article.save(): every column of the instance is written.
edit_save(w) ==
    /\ inflight[w].pc = "edit_save"
    /\ ApproveRest
    /\ articles' = RowSaved(inflight[w].article, inflight[w].row)
    /\ inflight' = [inflight EXCEPT ![w] =
           [pc |-> "done", op |-> "edit_article", status |-> "OK",
            was_approved |-> FALSE, sends |-> 0,
            announce |-> "not_attempted"]]
    /\ response' = [op |-> "edit_article", user |-> inflight[w].user,
                    status |-> "OK", method |-> "POST",
                    article |-> inflight[w].article]

EditRaceNext ==
    \E w \in Workers :
        \/ \E op \in ApproveOps, user \in UserIds, a \in ArticleIds :
              approve_begin(w, op, user, a)
        \/ \E user \in UserIds, a \in ArticleIds, title \in Titles,
              pub_id \in {"independent", ""} :
              edit_begin(w, user, a, title, "c2", pub_id)
        \/ edit_save(w)
        \/ ApproveStep(w)

EditRaceSpec == ApproveRaceInit /\ [][EditRaceNext]_vars

\* C26: the save of an approve request changes no column of the stored
\* article other than approved, whatever an edit request has committed
\* between the approve request's load and its save.
C26_ApproveWritesOnlyApproved ==
    [][\A w \in Workers :
          (/\ inflight[w].pc = "save"
           /\ inflight'[w].pc = "recipients"
           /\ inflight[w].article \in DOMAIN articles)
          => articles' =
                [articles EXCEPT ![inflight[w].article].approved = TRUE]]_vars

====
